---- MODULE Spec2Model ----
(***************************************************************************)
(* Model of the contacts resolution engine of apple-mcp                    *)
(* (utils/contacts.ts, utils/ValidationUtils.ts) : the phone normaliser,   *)
(* the fuzzy scorer, and the cache-first lookup operations running as      *)
(* cooperative tasks in front of the external Contacts application; of the *)
(* module loader (utils/ModuleLoader.ts); and of the tool handlers         *)
(* (handlers/BaseToolHandler.ts, handlers/ContactsHandler.ts) with their   *)
(* argument validator (validation/OperationValidator.ts).                  *)
(*                                                                         *)
(* Strings are sequences of one-character strings.  Scores are exact       *)
(* rationals [n |-> numerator, d |-> denominator].                         *)
(***************************************************************************)
EXTENDS Integers, Sequences, FiniteSets, TLC

(***************************************************************************)
(* Bounds                                                                  *)
(***************************************************************************)
\* longest query string given to the scorer
MaxQueryLen == 2
\* longest target string given to the scorer
MaxTargetLen == 3
\* longest free-form prefix of a generated phone string
MaxPhonePre == 2
\* number of concurrent callers of the lookup operations
NumCallers == 2
\* last instant of the clock
MaxTime == 2
\* total number of lookup calls started in one behaviour
MaxCalls == 2
\* largest number of contacts in a snapshot given to the aggregate search
MaxContacts == 2
\* largest maxResults given to the aggregate search
MaxLimit == 2
\* total number of imports started by the module loader
MaxImports == 2
\* total number of clearCache calls
MaxClears == 1
\* largest number of records in a list the Contacts application returns
MaxPeople == 2

VARIABLES
    \* scorer harness: the inputs and the computed score
    sQuery, sTarget, sScore,
    \* phone harness: the query, the stored phone of contact "John", the
    \* stored phone of a contact listed before it (or NoPhone), the results
    pQuery, pStored, pFirst, pOut,
    \* search harness: the query, the snapshot getAllContacts returns, the
    \* maxResults argument, the outcome
    fTerm, fSnapshot, fMax, fOut,
    \* the engine: the 'allContacts' entry of the contact cache, the clock,
    \* the people of the Contacts application
    cache, now, directory,
    \* the callers: where each is suspended, its operation, its argument, the
    \* value or error it got, what its current call did, calls started so far
    pc, op, arg, ret, hist, calls,
    \* whether the history records the invalidations that hit a fetch in
    \* flight (constant in a behaviour)
    observing,
    \* the module loader, for one module name: the cached module, the index
    \* of the registered loading promise (0: none), the import promises
    \* created so far, and per loadModule call where it is suspended, the
    \* promise it awaits and what it returned; the clearCache calls so far
    \* and whether no loadModule call was made since the last one
    moduleCache, loadingPromises, promises, lpc, lwait, lret, clears, lfresh,
    \* handler harness: the handler class, the arguments, what the test
    \* handler's validateArgs, loadModule and handleOperation do, the
    \* snapshot behind the contacts module, the outcome of handle
    hHandler, hArgs, hValid, hLoad, hOp, hSnapshot, hOut,
    \* fetch harness: the people the JXA script iterates over, the lines of
    \* the string the AppleScript fallback returns, the parsed contacts
    mPeople, mLines, mOut

scoreVars == <<sQuery, sTarget, sScore>>
phoneVars == <<pQuery, pStored, pFirst, pOut>>
engineVars == <<cache, now, directory, pc, op, arg, ret, hist, calls>>
searchVars == <<fTerm, fSnapshot, fMax, fOut>>
loaderVars ==
    <<moduleCache, loadingPromises, promises, lpc, lwait, lret, clears, lfresh>>
handlerVars == <<hHandler, hArgs, hValid, hLoad, hOp, hSnapshot, hOut>>
fetchVars == <<mPeople, mLines, mOut>>
toolVars == <<loaderVars, handlerVars, fetchVars>>
harnessVars == <<scoreVars, phoneVars, searchVars, observing, toolVars>>
vars == <<scoreVars, phoneVars, searchVars, observing, toolVars, engineVars>>

(***************************************************************************)
(* Generic string helpers (JavaScript String methods)                      *)
(***************************************************************************)
\* all strings over alphabet A of length at most n
StringsUpTo(A, n) == UNION {[1..k -> A] : k \in 0..n}

\* String.prototype.startsWith
StartsWith(t, s) == Len(s) <= Len(t) /\ SubSeq(t, 1, Len(s)) = s

\* String.prototype.includes
Includes(t, s) ==
    \E i \in 0..(Len(t) - Len(s)) : SubSeq(t, i + 1, i + Len(s)) = s

\* characters matched by \s
IsWhitespace(c) == c \in {" ", "\n"}

\* String.prototype.toLowerCase, one character
LowerChar(c) ==
    CASE c = "A" -> "a"
      [] c = "B" -> "b"
      [] c = "H" -> "h"
      [] c = "J" -> "j"
      [] OTHER -> c

\* String.prototype.toLowerCase
ToLowerCase(s) == [i \in 1..Len(s) |-> LowerChar(s[i])]

\* String.prototype.trim
RECURSIVE TrimLeft(_)
TrimLeft(s) ==
    IF s # <<>> /\ IsWhitespace(Head(s)) THEN TrimLeft(Tail(s)) ELSE s

RECURSIVE TrimRight(_)
TrimRight(s) ==
    IF s # <<>> /\ IsWhitespace(s[Len(s)])
    THEN TrimRight(SubSeq(s, 1, Len(s) - 1))
    ELSE s

Trim(s) == TrimRight(TrimLeft(s))

\* text.split(/\s+/) : the words of t, with the empty strings JavaScript
\* produces for leading and trailing whitespace
RECURSIVE SplitFrom(_, _, _, _)
SplitFrom(t, i, cur, acc) ==
    IF i > Len(t) THEN Append(acc, cur)
    ELSE IF IsWhitespace(t[i])
         THEN IF i > 1 /\ IsWhitespace(t[i - 1])
              THEN SplitFrom(t, i + 1, cur, acc)
              ELSE SplitFrom(t, i + 1, <<>>, Append(acc, cur))
         ELSE SplitFrom(t, i + 1, Append(cur, t[i]), acc)

SplitWhitespace(t) == SplitFrom(t, 1, <<>>, <<>>)

\* the elements of a sequence
Range(s) == {s[i] : i \in 1..Len(s)}

\* [...new Set(seq)] : first occurrences, in order
RECURSIVE Dedup(_)
Dedup(s) ==
    IF s = <<>> THEN <<>>
    ELSE LET r == Dedup(SubSeq(s, 1, Len(s) - 1))
         IN IF s[Len(s)] \in Range(r) THEN r ELSE Append(r, s[Len(s)])

(***************************************************************************)
(* Scores                                                                  *)
(***************************************************************************)
Ratio(n, d) == [n |-> n, d |-> d]
RatEq(a, b) == a.n * b.d = b.n * a.d
RatLt(a, b) == a.n * b.d < b.n * a.d
RatLe(a, b) == a.n * b.d <= b.n * a.d

(***************************************************************************)
(* calculateFuzzyScore                                                     *)
(***************************************************************************)
\* the word loop: the first word that decides, in order; "none" if no word
RECURSIVE WordLoop(_, _, _)
WordLoop(words, i, search) ==
    IF i > Len(words) THEN "none"
    ELSE IF StartsWith(words[i], search) THEN "wordStart"
    ELSE IF Includes(words[i], search) THEN "wordContains"
    ELSE WordLoop(words, i + 1, search)

\* the character loop: how many characters of search are matched in order
RECURSIVE CountMatches(_, _, _, _)
CountMatches(text, search, i, searchIndex) ==
    IF i > Len(text) \/ searchIndex > Len(search) THEN searchIndex - 1
    ELSE IF text[i] = search[searchIndex]
         THEN CountMatches(text, search, i + 1, searchIndex + 1)
         ELSE CountMatches(text, search, i + 1, searchIndex)

\* calculateFuzzyScore comparing against the target without lowercasing it
calculateFuzzyScoreCaseSensitive(searchTerm, target) ==
    LET search == ToLowerCase(searchTerm)
        text == target
        word == WordLoop(SplitWhitespace(text), 1, search)
        matches == CountMatches(text, search, 1, 1)
    IN  IF search = text THEN Ratio(10, 10)
        ELSE IF StartsWith(text, search) THEN Ratio(9, 10)
        ELSE IF Includes(text, search) THEN Ratio(7, 10)
        ELSE IF word = "wordStart" THEN Ratio(8, 10)
        ELSE IF word = "wordContains" THEN Ratio(6, 10)
        ELSE IF matches = Len(search) THEN Ratio(5 * matches, 10 * Len(text))
        ELSE Ratio(0, 10)

\* calculateFuzzyScore testing containment before the prefix
calculateFuzzyScoreContainsFirst(searchTerm, target) ==
    LET search == ToLowerCase(searchTerm)
        text == ToLowerCase(target)
        word == WordLoop(SplitWhitespace(text), 1, search)
        matches == CountMatches(text, search, 1, 1)
    IN  IF search = text THEN Ratio(10, 10)
        ELSE IF Includes(text, search) THEN Ratio(7, 10)
        ELSE IF StartsWith(text, search) THEN Ratio(9, 10)
        ELSE IF word = "wordStart" THEN Ratio(8, 10)
        ELSE IF word = "wordContains" THEN Ratio(6, 10)
        ELSE IF matches = Len(search) THEN Ratio(5 * matches, 10 * Len(text))
        ELSE Ratio(0, 10)

calculateFuzzyScore(searchTerm, target) ==
    LET search == ToLowerCase(searchTerm)
        text == ToLowerCase(target)
        word == WordLoop(SplitWhitespace(text), 1, search)
        matches == CountMatches(text, search, 1, 1)
    IN  IF search = text THEN Ratio(10, 10)
        ELSE IF StartsWith(text, search) THEN Ratio(9, 10)
        ELSE IF Includes(text, search) THEN Ratio(7, 10)
        ELSE IF word = "wordStart" THEN Ratio(8, 10)
        ELSE IF word = "wordContains" THEN Ratio(6, 10)
        ELSE IF matches = Len(search) THEN Ratio(5 * matches, 10 * Len(text))
        ELSE Ratio(0, 10)

(***************************************************************************)
(* Phone numbers                                                           *)
(***************************************************************************)
Digits == {"0", "1", "2", "3", "4", "5", "6", "7", "8", "9"}

\* null: no contact has the empty name (contacts.ts:178, 549)
Null == <<>>

\* phoneNumber.replace(/[^0-9+]/g, '')
StripPhone(s) == SelectSeq(s, LAMBDA c : c \in Digits \cup {"+"})

normalizePhoneNumber(phoneNumber) ==
    LET cleaned == StripPhone(phoneNumber)
        f1 == <<cleaned>>
        f2 == IF StartsWith(cleaned, <<"+", "1">>)
              THEN Append(f1, SubSeq(cleaned, 3, Len(cleaned)))
              ELSE f1
        f3 == IF ~StartsWith(cleaned, <<"+">>) /\ Len(cleaned) = 10
              THEN Append(f2, <<"+", "1">> \o cleaned)
              ELSE f2
        f4 == IF ~StartsWith(cleaned, <<"+">>) /\ Len(cleaned) > 0
              THEN Append(f3, <<"+">> \o cleaned)
              ELSE f3
    IN  Dedup(f4)

\* validatePhoneNumber: "ok" or the constraint that is violated
PhoneChars == Digits \cup {"+", "-", "(", ")", " ", "."}

validatePhoneNumber(phoneNumber) ==
    LET trimmed == Trim(phoneNumber)
    IN  IF Len(trimmed) = 0 THEN "empty"
        ELSE IF \E i \in 1..Len(trimmed) : trimmed[i] \notin PhoneChars
             THEN "invalid characters"
        ELSE IF Len(trimmed) > 30 THEN "too long"
        ELSE "ok"

\* the .some(...) test of the cache scan for one contact
PhoneMatches(searchNumbers, phones) ==
    \E k \in 1..Len(searchNumbers) : \E j \in 1..Len(phones) :
        LET searchNumber == searchNumbers[k]
            num == StripPhone(phones[j])
        IN  \/ num = searchNumber
            \/ num = <<"+">> \o searchNumber
            \/ num = <<"+", "1">> \o searchNumber
            \/ <<"+", "1">> \o num = searchNumber

\* the loop over Object.entries(allContacts) : the first contact that matches
RECURSIVE ScanContacts(_, _, _)
ScanContacts(searchNumbers, allContacts, i) ==
    IF i > Len(allContacts) THEN Null
    ELSE IF PhoneMatches(searchNumbers, allContacts[i].phones)
         THEN allContacts[i].name
         ELSE ScanContacts(searchNumbers, allContacts, i + 1)

\* the value of cache.get('allContacts') : a snapshot, or absent (null)
Absent == [present |-> FALSE, data |-> <<>>]
Present(snapshot) == [present |-> TRUE, data |-> snapshot]

findContactByPhoneCachedSearch(searchNumbers, allContacts) ==
    IF ~allContacts.present THEN Null
    ELSE ScanContacts(searchNumbers, allContacts.data, 1)

(***************************************************************************)
(* validateContactName, validateEmail : "ok" or the violated constraint    *)
(***************************************************************************)
\* a character of [\x00-\x08\x0B\x0C\x0E-\x1F\x7F]
ControlChars == {"BEL", "DEL"}

validateContactName(name) ==
    LET trimmed == Trim(name)
    IN  IF Len(trimmed) = 0 THEN "Contact name cannot be empty"
        ELSE IF Len(trimmed) > 200 THEN "Contact name is too long"
        ELSE IF \E i \in 1..Len(trimmed) : trimmed[i] \in ControlChars
             THEN "Contact name contains invalid control characters"
        ELSE "ok"

\* /^[^\s@]+@[^\s@]+\.[^\s@]+$/
EmailFormatOk(e) ==
    /\ \A i \in 1..Len(e) : ~IsWhitespace(e[i])
    /\ Cardinality({i \in 1..Len(e) : e[i] = "@"}) = 1
    /\ \E at \in 2..Len(e) :
          /\ e[at] = "@"
          /\ \E dot \in (at + 2)..(Len(e) - 1) : e[dot] = "."

validateEmail(email) ==
    LET trimmed == Trim(email)
    IN  IF Len(trimmed) = 0 THEN "Email address cannot be empty"
        ELSE IF ~EmailFormatOk(trimmed) THEN "Email address format is invalid"
        ELSE IF Len(trimmed) > 254 THEN "Email address is too long"
        ELSE "ok"

(***************************************************************************)
(* fuzzySearchContacts lines 303-355 and findContactByEmail lines 391-400  *)
(* over a snapshot: a sequence of contacts in key iteration order          *)
(***************************************************************************)
Scale(score, num, den) == Ratio(score.n * num, score.d * den)

Match(contact, score, matchType, matchValue) ==
    [contact |-> contact, score |-> score,
     matchType |-> matchType, matchValue |-> matchValue]

\* the matches pushed for the values of one list field
RECURSIVE FieldMatches(_, _, _, _, _, _, _)
FieldMatches(term, contact, values, i, matchType, threshold, weight) ==
    IF i > Len(values) THEN <<>>
    ELSE LET score == calculateFuzzyScore(term, values[i])
             rest == FieldMatches(term, contact, values, i + 1,
                                  matchType, threshold, weight)
         IN  IF RatLt(threshold, score)
             THEN <<Match(contact, Scale(score, weight, 10),
                          matchType, values[i])>> \o rest
             ELSE rest

\* the matches pushed for one contact: name, then emails, then phones
ContactMatches(term, contact) ==
    LET nameScore == calculateFuzzyScore(term, contact.name)
    IN  (IF RatLt(Ratio(3, 10), nameScore)
         THEN <<Match(contact, nameScore, "name", contact.name)>>
         ELSE <<>>)
        \o FieldMatches(term, contact, contact.emails, 1, "email",
                        Ratio(3, 10), 9)
        \o FieldMatches(term, contact, contact.phones, 1, "phone",
                        Ratio(5, 10), 8)

RECURSIVE AllMatches(_, _, _)
AllMatches(term, allContacts, i) ==
    IF i > Len(allContacts) THEN <<>>
    ELSE ContactMatches(term, allContacts[i])
         \o AllMatches(term, allContacts, i + 1)

\* uniqueResults keeping the first result of each contact
RECURSIVE UniqueResultsKeepFirst(_, _, _)
UniqueResultsKeepFirst(results, i, unique) ==
    IF i > Len(results) THEN unique
    ELSE LET result == results[i]
             at == {k \in 1..Len(unique) :
                      unique[k].contact.name = result.contact.name}
         IN  IF at = {}
             THEN UniqueResultsKeepFirst(results, i + 1,
                                         Append(unique, result))
             ELSE UniqueResultsKeepFirst(results, i + 1, unique)

\* uniqueResults keeping the last result of each contact
RECURSIVE UniqueResultsKeepLast(_, _, _)
UniqueResultsKeepLast(results, i, unique) ==
    IF i > Len(results) THEN unique
    ELSE LET result == results[i]
             at == {k \in 1..Len(unique) :
                      unique[k].contact.name = result.contact.name}
         IN  IF at = {}
             THEN UniqueResultsKeepLast(results, i + 1,
                                        Append(unique, result))
             ELSE LET k == CHOOSE x \in at : TRUE
                  IN  UniqueResultsKeepLast(results, i + 1,
                                            [unique EXCEPT ![k] = result])

\* uniqueResults: one entry per contact name, in order of first insertion,
\* replaced by a later result only when its score is strictly higher
RECURSIVE UniqueResults(_, _, _)
UniqueResults(results, i, unique) ==
    IF i > Len(results) THEN unique
    ELSE LET result == results[i]
             at == {k \in 1..Len(unique) :
                      unique[k].contact.name = result.contact.name}
         IN  IF at = {}
             THEN UniqueResults(results, i + 1, Append(unique, result))
             ELSE LET k == CHOOSE x \in at : TRUE
                  IN  IF RatLt(unique[k].score, result.score)
                      THEN UniqueResults(results, i + 1,
                                         [unique EXCEPT ![k] = result])
                      ELSE UniqueResults(results, i + 1, unique)

\* a sort that puts a result before the results of equal score
RECURSIVE InsertByScoreUnstable(_, _)
InsertByScoreUnstable(sorted, result) ==
    IF sorted = <<>> THEN <<result>>
    ELSE IF RatLe(Head(sorted).score, result.score)
         THEN <<result>> \o sorted
         ELSE <<Head(sorted)>> \o InsertByScoreUnstable(Tail(sorted), result)

\* Array.prototype.sort((a, b) => b.score - a.score) : stable, descending
RECURSIVE InsertByScore(_, _)
InsertByScore(sorted, result) ==
    IF sorted = <<>> THEN <<result>>
    ELSE IF RatLt(Head(sorted).score, result.score)
         THEN <<result>> \o sorted
         ELSE <<Head(sorted)>> \o InsertByScore(Tail(sorted), result)

RECURSIVE SortByScore(_)
SortByScore(results) ==
    IF results = <<>> THEN <<>>
    ELSE InsertByScore(SortByScore(SubSeq(results, 1, Len(results) - 1)),
                       results[Len(results)])

\* Array.prototype.slice(0, end)
SliceFromStart(seq, end) ==
    LET stop == IF end < 0 THEN Len(seq) + end ELSE end
    IN  SubSeq(seq, 1, IF stop > Len(seq) THEN Len(seq) ELSE stop)

FuzzyResults(sanitizedTerm, allContacts, maxResults) ==
    SliceFromStart(
        SortByScore(UniqueResults(AllMatches(sanitizedTerm, allContacts, 1),
                                  1, <<>>)),
        maxResults)

\* the contacts with an email containing the query, ignoring case
EmailResults(sanitizedEmail, allContacts) ==
    SelectSeq(allContacts,
        LAMBDA contactInfo :
            \E k \in 1..Len(contactInfo.emails) :
                Includes(ToLowerCase(contactInfo.emails[k]),
                         ToLowerCase(sanitizedEmail)))

(***************************************************************************)
(* Scorer harness: calculateFuzzyScore applied to every pair of bounded    *)
(* strings                                                                 *)
(***************************************************************************)
ScoreAlphabet == {"a", "b", "A", " "}
NotScored == Ratio(-1, 1)

InitScore ==
    /\ sQuery \in StringsUpTo(ScoreAlphabet, MaxQueryLen)
    /\ sTarget \in StringsUpTo(ScoreAlphabet, MaxTargetLen)
    /\ sScore = NotScored

IdleScore ==
    /\ sQuery = <<>>
    /\ sTarget = <<>>
    /\ sScore = NotScored

ScoreStep ==
    /\ sScore = NotScored
    /\ sScore' = calculateFuzzyScore(sQuery, sTarget)
    /\ UNCHANGED <<sQuery, sTarget, phoneVars, searchVars, observing,
                   engineVars, toolVars>>

(***************************************************************************)
(* Phone harness: validatePhoneNumber, normalizePhoneNumber and the cache  *)
(* scan applied to bounded phone strings                                   *)
(***************************************************************************)
PhonePreAlphabet == {"+", "1"}
BodyShort == <<"9", "1", "1">>
Body8 == <<"5", "5", "1", "2", "3", "4", "5", "6">>
Body10 == <<"5", "5", "5", "1", "2", "3", "4", "5", "6", "7">>
Body10Dash == <<"5", "5", "5", "-", "1", "2", "3", "-", "4", "5", "6", "7">>
Body10Paren ==
    <<"(", "5", "5", "5", ")", " ", "1", "2", "3", ".", "4", "5", "6", "7">>
Body10Ext == Body10 \o <<"x", "9">>
PhoneBodies ==
    {BodyShort, Body8, Body10, Body10Dash, Body10Paren, Body10Ext}
PhoneInputs ==
    {pre \o body : pre \in StringsUpTo(PhonePreAlphabet, MaxPhonePre),
                   body \in PhoneBodies}

\* the stored phone of the contact listed before John; NoPhone: no such contact
NoPhone == <<"none">>
FirstPhones == {NoPhone, <<"+">> \o Body10, <<"9", "9", "9">>}

John == <<"J", "o", "h", "n">>
Hans == <<"H", "a", "n", "s">>

Contact(name, phones, emails) ==
    [name |-> name, phones |-> phones, emails |-> emails, addresses |-> <<>>]

\* the snapshot the harness scans
HarnessSnapshot(first, stored) ==
    (IF first = NoPhone THEN <<>> ELSE <<Contact(Hans, <<first>>, <<>>)>>)
    \o <<Contact(John, <<stored>>, <<>>)>>

NotRun == [state |-> "not run"]

InitPhone ==
    /\ pQuery \in PhoneInputs
    /\ pStored \in PhoneInputs
    /\ pFirst \in FirstPhones
    /\ pOut = NotRun

IdlePhone ==
    /\ pQuery = <<>>
    /\ pStored = <<>>
    /\ pFirst = NoPhone
    /\ pOut = NotRun

\* lines 467-480 on a query that passes validation
PhoneScanStep ==
    /\ pOut = NotRun
    /\ validatePhoneNumber(pQuery) = "ok"
    /\ LET searchNumbers == normalizePhoneNumber(Trim(pQuery))
       IN pOut' = [state |-> "scanned",
                   searchNumbers |-> searchNumbers,
                   matches |-> PhoneMatches(searchNumbers, <<pStored>>),
                   reverse |-> PhoneMatches(normalizePhoneNumber(pStored),
                                            <<pQuery>>),
                   found |-> findContactByPhoneCachedSearch(searchNumbers,
                                Present(HarnessSnapshot(pFirst, pStored)))]
    /\ UNCHANGED <<pQuery, pStored, pFirst,
                   scoreVars, searchVars, observing, engineVars, toolVars>>

\* lines 467, 570-573 on a query that fails validation
PhoneRejectStep ==
    /\ pOut = NotRun
    /\ validatePhoneNumber(pQuery) # "ok"
    /\ pOut' = [state |-> "rejected", reason |-> validatePhoneNumber(pQuery)]
    /\ UNCHANGED <<pQuery, pStored, pFirst,
                   scoreVars, searchVars, observing, engineVars, toolVars>>

(***************************************************************************)
(* Search harness: fuzzySearchContacts and findContactByEmail applied to   *)
(* bounded snapshots that getAllContacts returns from the cache            *)
(***************************************************************************)
JoEmail == <<"j", "o", "@", "x", ".", "c">>
\* the contacts a snapshot is made of
PoolJohn == Contact(John, <<Body10>>, <<JoEmail>>)
PoolJoan == Contact(<<"J", "o", "a", "n">>, <<>>, <<>>)
PoolAlJo == Contact(<<"A", "l", " ", "J", "o">>, <<>>, <<JoEmail>>)
PoolJodoe == Contact(<<"J", "o", "d", "o", "e">>, <<>>, <<>>)
ContactPool == {PoolJohn, PoolJoan, PoolAlJo, PoolJodoe}

\* the snapshots: up to MaxContacts contacts of the pool, names distinct
Snapshots ==
    {snap \in UNION {[1..k -> ContactPool] : k \in 0..MaxContacts} :
        \A i, j \in 1..Len(snap) : i # j => snap[i].name # snap[j].name}

\* the queries
SearchInputs ==
    {<<>>, <<"j", "o">>, <<"J", "O", " ">>, <<"j", "d", "o">>,
     <<"5", "5", "5">>, <<"x", ".", "c">>, JoEmail}

NotSearched == [state |-> "not run"]

InitSearch ==
    /\ fTerm \in SearchInputs
    /\ fSnapshot \in Snapshots
    /\ fMax \in 0..MaxLimit
    /\ fOut = NotSearched

IdleSearch ==
    /\ fTerm = <<>>
    /\ fSnapshot = <<>>
    /\ fMax = 0
    /\ fOut = NotSearched

\* fuzzySearchContacts (lines 297-363) with getAllContacts returning
\* allContacts: the pushed matches and the returned list; an error thrown by
\* the validation is caught and [] is returned
fuzzySearchContacts(searchTerm, maxResults, allContacts) ==
    IF validateContactName(searchTerm) # "ok"
    THEN [state |-> "searched", results |-> <<>>, sortedResults |-> <<>>]
    ELSE [state |-> "searched",
          results |-> AllMatches(Trim(searchTerm), allContacts, 1),
          sortedResults |-> FuzzyResults(Trim(searchTerm), allContacts,
                                         maxResults)]

\* findContactByEmail (lines 385-408) with getAllContacts returning
\* allContacts: the contacts, or the error thrown
findContactByEmail(email, allContacts) ==
    IF validateEmail(email) # "ok"
    THEN [state |-> "email", kind |-> "error",
          value |-> <<"Error finding contact by email", validateEmail(email)>>]
    ELSE [state |-> "email", kind |-> "contacts",
          value |-> EmailResults(Trim(email), allContacts)]

FuzzySearchStep ==
    /\ fOut = NotSearched
    /\ fOut' = fuzzySearchContacts(fTerm, fMax, fSnapshot)
    /\ UNCHANGED <<fTerm, fSnapshot, fMax,
                   scoreVars, phoneVars, observing, engineVars, toolVars>>

EmailSearchStep ==
    /\ fOut = NotSearched
    /\ fOut' = findContactByEmail(fTerm, fSnapshot)
    /\ UNCHANGED <<fTerm, fSnapshot, fMax,
                   scoreVars, phoneVars, observing, engineVars, toolVars>>

\* the concurrent callers
Callers == 1..NumCallers

(***************************************************************************)
(* ModuleLoader (utils/ModuleLoader.ts): loadModule calls for one module   *)
(* name as cooperative tasks suspended at the import promise               *)
(***************************************************************************)
\* everything but the module loader
beyondLoader ==
    <<scoreVars, phoneVars, searchVars, observing, engineVars, handlerVars,
      fetchVars>>

NoModule == [kind |-> "none", id |-> 0]
Module(i) == [kind |-> "module", id |-> i]
LoadError == [kind |-> "error", id |-> 0]

\* loadModuleInternal (lines 67-96) was called: a new pending promise; each
\* import yields its own module object
StartImport == Append(promises, [state |-> "pending", value |-> NoModule])

InitLoader ==
    /\ moduleCache = NoModule
    /\ loadingPromises = 0
    /\ promises = <<>>
    /\ lpc = [p \in Callers |-> "idle"]
    /\ lwait = [p \in Callers |-> 0]
    /\ lret = [p \in Callers |-> NoModule]
    /\ clears = 0
    /\ lfresh = FALSE

IdleLoader == InitLoader

\* loadModule lines 25-30: the module is cached
LoadModuleCached(p) ==
    /\ moduleCache # NoModule
    /\ lpc' = [lpc EXCEPT ![p] = "done"]
    /\ lret' = [lret EXCEPT ![p] = moduleCache]
    /\ UNCHANGED <<moduleCache, loadingPromises, promises, lwait>>

\* loadModule lines 33-36: a load is in flight, await its promise
LoadModuleJoins(p) ==
    /\ moduleCache = NoModule
    /\ loadingPromises # 0
    /\ lpc' = [lpc EXCEPT ![p] = "joined"]
    /\ lwait' = [lwait EXCEPT ![p] = loadingPromises]
    /\ UNCHANGED <<moduleCache, loadingPromises, promises, lret>>

\* loadModule lines 39-43: start the import, register its promise, await it
LoadModuleStarts(p) ==
    /\ moduleCache = NoModule
    /\ loadingPromises = 0
    /\ Len(promises) < MaxImports
    /\ promises' = StartImport
    /\ loadingPromises' = Len(promises')
    /\ lpc' = [lpc EXCEPT ![p] = "loading"]
    /\ lwait' = [lwait EXCEPT ![p] = Len(promises')]
    /\ UNCHANGED <<moduleCache, lret>>

\* loadModule (lines 23-43) up to its return or its first suspension
LoadModule(p) ==
    /\ lpc[p] \in {"idle", "done"}
    /\ LoadModuleCached(p) \/ LoadModuleJoins(p) \/ LoadModuleStarts(p)
    /\ lfresh' = FALSE
    /\ UNCHANGED <<clears, beyondLoader>>

\* the dynamic import of loadModuleInternal resolves with a default export
ImportSucceeds(i) ==
    /\ i <= Len(promises)
    /\ promises[i].state = "pending"
    /\ promises' = [promises EXCEPT ![i] =
                       [state |-> "fulfilled", value |-> Module(i)]]
    /\ UNCHANGED <<moduleCache, loadingPromises, lpc, lwait, lret, clears,
                   lfresh, beyondLoader>>

\* the import rejects or has no default export: loadModuleInternal throws
ImportFails(i) ==
    /\ i <= Len(promises)
    /\ promises[i].state = "pending"
    /\ promises' = [promises EXCEPT ![i] =
                       [state |-> "rejected", value |-> LoadError]]
    /\ UNCHANGED <<moduleCache, loadingPromises, lpc, lwait, lret, clears,
                   lfresh, beyondLoader>>

\* loadModule lines 43-53 and 58-61 in the call that started the import:
\* cache the module, delete the loading promise of the name, return
LoaderCaches(p) ==
    /\ lpc[p] = "loading"
    /\ promises[lwait[p]].state = "fulfilled"
    /\ moduleCache' = promises[lwait[p]].value
    /\ loadingPromises' = 0
    /\ lpc' = [lpc EXCEPT ![p] = "done"]
    /\ lret' = [lret EXCEPT ![p] = promises[lwait[p]].value]
    /\ UNCHANGED <<promises, lwait, clears, lfresh, beyondLoader>>

\* loadModule lines 54-61 in the call that started the import: delete the
\* loading promise of the name, rethrow
LoaderRethrows(p) ==
    /\ lpc[p] = "loading"
    /\ promises[lwait[p]].state = "rejected"
    /\ loadingPromises' = 0
    /\ lpc' = [lpc EXCEPT ![p] = "done"]
    /\ lret' = [lret EXCEPT ![p] = LoadError]
    /\ UNCHANGED <<moduleCache, promises, lwait, clears, lfresh, beyondLoader>>

\* loadModule line 35 in a call that joined a load in flight: the awaited
\* promise settled, return its module or throw its error
JoinerResumes(p) ==
    /\ lpc[p] = "joined"
    /\ promises[lwait[p]].state # "pending"
    /\ lpc' = [lpc EXCEPT ![p] = "done"]
    /\ lret' = [lret EXCEPT ![p] = promises[lwait[p]].value]
    /\ UNCHANGED <<moduleCache, loadingPromises, promises, lwait, clears,
                   lfresh, beyondLoader>>

\* clearCache (lines 111-114)
ClearCache ==
    /\ clears < MaxClears
    /\ moduleCache' = NoModule
    /\ loadingPromises' = 0
    /\ clears' = clears + 1
    /\ lfresh' = TRUE
    /\ UNCHANGED <<promises, lpc, lwait, lret, beyondLoader>>

NextLoader ==
    \/ \E p \in Callers : LoadModule(p)
    \/ \E i \in 1..MaxImports : ImportSucceeds(i)
    \/ \E i \in 1..MaxImports : ImportFails(i)
    \/ \E p \in Callers : LoaderCaches(p)
    \/ \E p \in Callers : LoaderRethrows(p)
    \/ \E p \in Callers : JoinerResumes(p)
    \/ ClearCache

(***************************************************************************)
(* Handler harness: BaseToolHandler.handle (handlers/BaseToolHandler.ts)   *)
(* in the test handler of tests/unit/handlers.test.ts and in               *)
(* ContactsHandler (handlers/ContactsHandler.ts) with the validator of     *)
(* validation/OperationValidator.ts and the contacts schema                *)
(***************************************************************************)
\* everything but the handler harness
beyondHandler ==
    <<scoreVars, phoneVars, searchVars, observing, engineVars, loaderVars,
      fetchVars>>

\* an optional property of the arguments object: <<>> when undefined,
\* <<v>> when it holds v
Undefined == <<>>
Defined(v) == <<v>>
\* JavaScript truthiness of an optional property holding a string, the
\* name of an operation, a number, a boolean
TruthyString(property) == property # Undefined /\ property[1] # Null
TruthyOperation(property) == property # Undefined /\ property[1] # ""
TruthyNumber(property) == property # Undefined /\ property[1] # 0
TruthyBoolean(property) == property # Undefined /\ property[1]

\* thrown values: an Error or a string
ErrorValue(message) == [class |-> "Error", message |-> message]
StringValue(message) == [class |-> "string", message |-> message]

Response(isError, text, contacts) ==
    [isError |-> isError, text |-> text, contacts |-> contacts]

\* createErrorResponse (BaseToolHandler.ts lines 75-80)
createErrorResponse(message) == Response(TRUE, message, <<>>)

\* createSuccessResponse (lines 64-70) and ResponseBuilder.success
createSuccessResponse(text, contacts) == Response(FALSE, text, contacts)

\* handleError (lines 96-103): the message of an Error, String(error) of
\* any other value
handleError(error) ==
    createErrorResponse(<<"Error with operation">> \o error.message)

Resolved(response, validated, loaded, operated, made) ==
    [state |-> "handled", settled |-> "resolved", response |-> response,
     validated |-> validated, loaded |-> loaded, operated |-> operated,
     made |-> made]

Rejected(error, validated, loaded, operated, made) ==
    [state |-> "handled", settled |-> "rejected", response |-> error,
     validated |-> validated, loaded |-> loaded, operated |-> operated,
     made |-> made]

\* a handle whose catch clause answers only Error instances
HandleCatchErrorsOnly(error, loaded, operated, made) ==
    IF error.class = "Error"
    THEN Resolved(handleError(error), "true", loaded, operated, made)
    ELSE Rejected(error, "true", loaded, operated, made)

\* handle lines 56-58: whatever was thrown becomes an error response
HandleCatch(error, loaded, operated, made) ==
    Resolved(handleError(error), "true", loaded, operated, made)

\* what loadModule and handleOperation do
ModuleLoaded == [kind |-> "returns"]
Returns(response, made) ==
    [kind |-> "returns", response |-> response, made |-> made]
Throws(error) == [kind |-> "throws", error |-> error]

\* BaseToolHandler.handle (lines 44-59); valid is the result of validateArgs,
\* load what loadModule does, operation what handleOperation does
handle(args, valid, load, operation) ==
    IF args = Undefined
    THEN Resolved(createErrorResponse(<<"No arguments provided">>),
                  "not called", FALSE, FALSE, <<>>)
    ELSE IF ~valid
    THEN Resolved(createErrorResponse(<<"Invalid arguments">>),
                  "false", FALSE, FALSE, <<>>)
    ELSE IF load.kind = "throws"
    THEN HandleCatch(load.error, TRUE, FALSE, <<>>)
    ELSE IF operation.kind = "throws"
    THEN HandleCatch(operation.error, TRUE, TRUE, <<>>)
    ELSE Resolved(operation.response, "true", TRUE, TRUE, operation.made)

\* ---- OperationValidator with the contacts schema ----
ContactsOperations == {"search", "list", "email", "phone"}

\* validateField (OperationValidator.ts lines 91-129) for a string rule
validateStringField(value, required, allowEmpty, oneOf) ==
    IF value = Undefined THEN ~required
    ELSE /\ allowEmpty \/ value[1] # Null
         /\ oneOf = {} \/ value[1] \in oneOf

\* validateField for the rule { type: 'string', required: true, oneOf }
validateOperationField(value, operations) ==
    /\ value # Undefined
    /\ value[1] # ""
    /\ value[1] \in operations

\* the fields the contacts schema (ToolSchemas, contactsValidator) requires
\* of an operation; the optional number and boolean fields accept undefined
\* and any value of their type
validateOperationFields(typedArgs) ==
    CASE typedArgs.operation[1] = "search" ->
            validateStringField(typedArgs.searchTerm, TRUE, FALSE, {})
      [] typedArgs.operation[1] = "email" ->
            validateStringField(typedArgs.email, TRUE, FALSE, {})
      [] typedArgs.operation[1] = "phone" ->
            validateStringField(typedArgs.phoneNumber, TRUE, FALSE, {})
      [] OTHER -> TRUE

\* OperationValidator.validate (lines 46-86) with the contacts config: the
\* result and the arguments object as the legacy mapping leaves it
validate(args) ==
    LET legacy == TruthyString(args.name) /\ ~TruthyOperation(args.operation)
        typedArgs == IF legacy /\ validateStringField(args.name, TRUE, FALSE, {})
                     THEN [args EXCEPT !.operation = Defined("search")]
                     ELSE args
    IN  IF legacy /\ ~validateStringField(args.name, TRUE, FALSE, {})
        THEN [ok |-> FALSE, args |-> args]
        ELSE IF ~validateOperationField(typedArgs.operation,
                                        ContactsOperations)
        THEN [ok |-> FALSE, args |-> typedArgs]
        ELSE [ok |-> validateOperationFields(typedArgs), args |-> typedArgs]

\* ---- ContactsHandler over the contacts module ----
\* results.map(r => r.contact)
RECURSIVE ContactsOf(_)
ContactsOf(results) ==
    IF results = <<>> THEN <<>>
    ELSE <<Head(results).contact>> \o ContactsOf(Tail(results))

DefaultMaxResults == 10

\* searchContacts (contacts.ts lines 370-378)
searchContacts(searchTerm, allContacts) ==
    ContactsOf(fuzzySearchContacts(searchTerm, DefaultMaxResults,
                                   allContacts).sortedResults)

\* args.maxResults || 10
MaxResultsOrDefault(args) ==
    IF TruthyNumber(args.maxResults) THEN args.maxResults[1]
    ELSE DefaultMaxResults

Call(fn, argument) == [fn |-> fn, argument |-> argument]

\* handleLegacyNameSearch (ContactsHandler.ts lines 65-76)
handleLegacyNameSearch(name, allContacts) ==
    LET contacts == searchContacts(name, allContacts)
    IN  Returns(IF Len(contacts) = 0
                THEN createSuccessResponse(<<"No results found">>, <<>>)
                ELSE createSuccessResponse(<<"contact">>, <<contacts[1]>>),
                <<Call("searchContacts", <<name>>)>>)

\* handleSearch (lines 78-103)
handleSearch(args, allContacts) ==
    LET searchTerm == args.searchTerm[1]
        results ==
            IF TruthyBoolean(args.includeScore)
            THEN ContactsOf(fuzzySearchContacts(searchTerm,
                     MaxResultsOrDefault(args), allContacts).sortedResults)
            ELSE searchContacts(searchTerm, allContacts)
        call ==
            IF TruthyBoolean(args.includeScore)
            THEN Call("fuzzySearchContacts",
                      <<searchTerm, MaxResultsOrDefault(args)>>)
            ELSE Call("searchContacts", <<searchTerm>>)
    IN  Returns(IF Len(results) = 0
                THEN createSuccessResponse(<<"No results found">>, <<>>)
                ELSE createSuccessResponse(<<"Found contacts">>, results),
                <<call>>)

\* handleEmailLookup (lines 105-119); findContactByEmail may throw
handleEmailLookup(args, allContacts) ==
    LET found == findContactByEmail(args.email[1], allContacts)
        call == Call("findContactByEmail", <<args.email[1]>>)
    IN  IF found.kind = "error"
        THEN Throws(ErrorValue(found.value))
        ELSE IF Len(found.value) = 0
        THEN Returns(createSuccessResponse(<<"No results found">>, <<>>),
                     <<call>>)
        ELSE Returns(createSuccessResponse(<<"Found contacts">>,
                        SliceFromStart(found.value,
                                       MaxResultsOrDefault(args))),
                     <<call>>)

\* ContactsHandler.handleOperation lines 36-52: the dispatch
DispatchOperation(args, allContacts) ==
    IF TruthyString(args.name) /\ ~TruthyOperation(args.operation)
    THEN handleLegacyNameSearch(args.name[1], allContacts)
    ELSE CASE args.operation = Defined("search") ->
                handleSearch(args, allContacts)
           [] args.operation = Defined("email") ->
                handleEmailLookup(args, allContacts)
           [] OTHER -> Throws(ErrorValue(<<"Unknown operation">>))

\* ContactsHandler.handleOperation (lines 34-63): whatever the dispatch
\* throws becomes an error response with the troubleshooting text
handleOperation(args, allContacts) ==
    LET outcome == DispatchOperation(args, allContacts)
    IN  IF outcome.kind = "throws"
        THEN Returns(createErrorResponse(<<"Error accessing contacts">>
                                         \o outcome.error.message), <<>>)
        ELSE outcome

\* ---- the inputs ----
Jo == <<"j", "o">>
ContactsArgs ==
    [operation : {Undefined, Defined("search"), Defined("email"),
                  Defined("remove")},
     name : {Undefined, Defined(Jo)},
     searchTerm : {Undefined, Defined(Null), Defined(Jo)},
     email : {Undefined, Defined(JoEmail)},
     phoneNumber : {Undefined},
     maxResults : {Undefined} \cup {Defined(n) : n \in 0..MaxLimit},
     includeScore : {Undefined, Defined(FALSE), Defined(TRUE)}]

\* the arguments of the tests of BaseToolHandler
TestArgs ==
    [operation |-> Undefined, name |-> Undefined, searchTerm |-> Undefined,
     email |-> Undefined, phoneNumber |-> Undefined,
     maxResults |-> Undefined, includeScore |-> Undefined]

\* loadModule: returns the module, throws an Error, throws a string
LoadOutcomes == {"module", "Error", "string"}
\* handleOperation of the test handler: module.testMethod resolves, rejects
\* with an Error, or a string is thrown
OperationOutcomes == {"result", "Error", "string"}

LoadOf(outcome) ==
    CASE outcome = "module" -> ModuleLoaded
      [] outcome = "Error" -> Throws(ErrorValue(<<"Module loading failed">>))
      [] outcome = "string" -> Throws(StringValue(<<"Module loading failed">>))

\* TestHandler.handleOperation (handlers.test.ts lines 38-41, 111-113)
TestOperation(outcome) ==
    CASE outcome = "result" ->
            Returns(createSuccessResponse(<<"Test result">>, <<>>),
                    <<Call("testMethod", <<>>)>>)
      [] outcome = "Error" -> Throws(ErrorValue(<<"Operation failed">>))
      [] outcome = "string" -> Throws(StringValue(<<"String error">>))

NotHandled == [state |-> "not run"]

InitHandler ==
    /\ hHandler \in {"TestHandler", "ContactsHandler"}
    /\ hLoad \in LoadOutcomes
    /\ IF hHandler = "TestHandler"
       THEN /\ hArgs \in {Undefined, Defined(TestArgs)}
            /\ hValid \in BOOLEAN
            /\ hOp \in OperationOutcomes
            /\ hSnapshot = <<>>
       ELSE /\ hArgs \in {Undefined} \cup {Defined(a) : a \in ContactsArgs}
            /\ hValid = TRUE
            /\ hOp = "result"
            /\ hSnapshot \in Snapshots
    /\ hOut = NotHandled

IdleHandler ==
    /\ hHandler = "TestHandler"
    /\ hLoad = "module"
    /\ hArgs = Undefined
    /\ hValid = TRUE
    /\ hOp = "result"
    /\ hSnapshot = <<>>
    /\ hOut = NotHandled

\* TestHandler.handle
TestHandleStep ==
    /\ hOut = NotHandled
    /\ hHandler = "TestHandler"
    /\ hOut' = handle(hArgs, hValid, LoadOf(hLoad), TestOperation(hOp))
    /\ UNCHANGED <<hHandler, hArgs, hValid, hLoad, hOp, hSnapshot,
                   beyondHandler>>

\* ContactsHandler.handle: validateArgs is the contacts validator,
\* handleOperation gets the arguments object the validator left
ContactsHandleStep ==
    /\ hOut = NotHandled
    /\ hHandler = "ContactsHandler"
    /\ hOut' = IF hArgs = Undefined
               THEN handle(hArgs, FALSE, LoadOf(hLoad), ModuleLoaded)
               ELSE handle(hArgs, validate(hArgs[1]).ok, LoadOf(hLoad),
                           handleOperation(validate(hArgs[1]).args,
                                           hSnapshot))
    /\ UNCHANGED <<hHandler, hArgs, hValid, hLoad, hOp, hSnapshot,
                   beyondHandler>>

NextHandler == TestHandleStep \/ ContactsHandleStep

(***************************************************************************)
(* The contact cache (ContactCache.ts) : one entry under 'allContacts'     *)
(***************************************************************************)
\* time-to-live of an entry, in clock ticks
TtlMs == 2

NoEntry == [present |-> FALSE, snapshot |-> <<>>, createdAt |-> 0]

\* cache.get : the snapshot while now - createdAt < ttlMs, else absent
CacheGet(entry, time) ==
    IF entry.present /\ time - entry.createdAt < TtlMs
    THEN Present(entry.snapshot)
    ELSE Absent

\* cache.set : wholesale replace, resets createdAt
CacheSet(snapshot, time) ==
    [present |-> TRUE, snapshot |-> snapshot, createdAt |-> time]

\* an invalidate that stores an empty snapshot instead of dropping the entry
CacheInvalidateStoresEmpty ==
    [present |-> TRUE, snapshot |-> <<>>, createdAt |-> 0]

\* cache.invalidate() : drops the entry
CacheInvalidate == NoEntry

(***************************************************************************)
(* The engine: lookups as cooperative tasks suspended at external calls    *)
(***************************************************************************)

\* existingData[contactInfo.name] = contactInfo
RECURSIVE IndexOfName(_, _, _)
IndexOfName(snapshot, name, i) ==
    IF i > Len(snapshot) THEN 0
    ELSE IF snapshot[i].name = name THEN i
    ELSE IndexOfName(snapshot, name, i + 1)

AssignContact(snapshot, contactInfo) ==
    LET k == IndexOfName(snapshot, contactInfo.name, 1)
    IN  IF k = 0 THEN Append(snapshot, contactInfo)
        ELSE [snapshot EXCEPT ![k] = contactInfo]

\* the contactsMap built from the people of the Contacts application
RECURSIVE ContactsMap(_, _, _)
ContactsMap(people, i, contactsMap) ==
    IF i > Len(people) THEN contactsMap
    ELSE IF people[i].name = <<>> THEN ContactsMap(people, i + 1, contactsMap)
    ELSE ContactsMap(people, i + 1, AssignContact(contactsMap, people[i]))

(***************************************************************************)
(* Fetch harness: the per-record loop of the JXA script of getAllContacts  *)
(* and the parser of getAllContactsAppleScript, applied to bounded lists   *)
(* with malformed records                                                  *)
(***************************************************************************)
\* everything but the fetch harness
beyondFetch ==
    <<scoreVars, phoneVars, searchVars, observing, engineVars, loaderVars,
      handlerVars>>

\* a person of the Contacts application; unreadable: reading one of its
\* properties throws
Person(name, phones, emails, addresses, unreadable) ==
    [name |-> name, phones |-> phones, emails |-> emails,
     addresses |-> addresses, unreadable |-> unreadable]

\* values.filter(v => v)
NonEmptyValues(values) == SelectSeq(values, LAMBDA v : v # Null)

\* String.prototype.replace(/\n/g, ' ')
NewlinesToSpaces(t) == [i \in 1..Len(t) |-> IF t[i] = "\n" THEN " " ELSE t[i]]

RECURSIVE MapTrim(_)
MapTrim(values) ==
    IF values = <<>> THEN <<>>
    ELSE <<Trim(Head(values))>> \o MapTrim(Tail(values))

RECURSIVE FormatAddresses(_)
FormatAddresses(addresses) ==
    IF addresses = <<>> THEN <<>>
    ELSE <<Trim(NewlinesToSpaces(Head(addresses)))>>
         \o FormatAddresses(Tail(addresses))

\* the loop of the JXA script (contacts.ts lines 176-213) with the check of
\* the name left out
RECURSIVE JxaPeopleLoopKeepsNameless(_, _, _)
JxaPeopleLoopKeepsNameless(people, i, contactsMap) ==
    IF i > Len(people) THEN contactsMap
    ELSE IF people[i].unreadable
    THEN JxaPeopleLoopKeepsNameless(people, i + 1, contactsMap)
    ELSE JxaPeopleLoopKeepsNameless(people, i + 1,
            AssignContact(contactsMap,
                [name |-> people[i].name,
                 phones |-> NonEmptyValues(people[i].phones),
                 emails |-> NonEmptyValues(people[i].emails),
                 addresses |->
                     NonEmptyValues(FormatAddresses(people[i].addresses))]))

\* the loop of the JXA script (lines 176-213): a person whose reading throws
\* is skipped by the catch clause, a person without name by the continue
RECURSIVE JxaPeopleLoop(_, _, _)
JxaPeopleLoop(people, i, contactsMap) ==
    IF i > Len(people) THEN contactsMap
    ELSE IF people[i].unreadable
    THEN JxaPeopleLoop(people, i + 1, contactsMap)
    ELSE IF people[i].name = Null
    THEN JxaPeopleLoop(people, i + 1, contactsMap)
    ELSE JxaPeopleLoop(people, i + 1,
            AssignContact(contactsMap,
                [name |-> people[i].name,
                 phones |-> NonEmptyValues(people[i].phones),
                 emails |-> NonEmptyValues(people[i].emails),
                 addresses |->
                     NonEmptyValues(FormatAddresses(people[i].addresses))]))

\* String.prototype.split(separator), separator not empty
RECURSIVE SplitOnFrom(_, _, _, _, _)
SplitOnFrom(t, separator, i, cur, acc) ==
    IF i > Len(t) THEN Append(acc, cur)
    ELSE IF /\ i + Len(separator) - 1 <= Len(t)
            /\ SubSeq(t, i, i + Len(separator) - 1) = separator
    THEN SplitOnFrom(t, separator, i + Len(separator), <<>>,
                     Append(acc, cur))
    ELSE SplitOnFrom(t, separator, i + 1, Append(cur, t[i]), acc)

SplitOn(t, separator) == SplitOnFrom(t, separator, 1, <<>>, <<>>)

\* str ? str.split(',').map(v => v.trim()).filter(v => v) : []
ListOfValues(str) ==
    IF str = Null THEN <<>>
    ELSE NonEmptyValues(MapTrim(SplitOn(str, <<",">>)))

\* the loop over the lines (lines 114-131)
RECURSIVE ParseLines(_, _, _)
ParseLines(lines, i, contacts) ==
    IF i > Len(lines) THEN contacts
    ELSE LET parts == SplitOn(lines[i], <<"|", "|">>)
         IN  IF Len(parts) >= 4 /\ Trim(parts[1]) # Null
             THEN ParseLines(lines, i + 1,
                     AssignContact(contacts,
                         [name |-> Trim(parts[1]),
                          phones |-> ListOfValues(parts[2]),
                          emails |-> ListOfValues(parts[3]),
                          addresses |-> ListOfValues(parts[4])]))
             ELSE ParseLines(lines, i + 1, contacts)

\* the parser of getAllContactsAppleScript (lines 109-133) on the string
\* the script returned
ParseAppleScriptResult(result) ==
    IF Trim(result) = Null THEN <<>>
    ELSE ParseLines(SelectSeq(SplitOn(Trim(result), <<"\n">>),
                              LAMBDA line : Trim(line) # Null),
                    1, <<>>)

\* ---- the inputs ----
Bars == <<"|", "|">>
PersonJo == Person(<<"J", "o">>, <<(<<"5">>), Null>>, <<(<<"j", "@", "x">>)>>,
                   <<>>, FALSE)
PersonAl == Person(<<"A", "l">>, <<>>, <<>>, <<(<<"a", "\n", "b">>)>>, FALSE)
PersonNameless == Person(Null, <<(<<"5">>)>>, <<>>, <<>>, FALSE)
PersonUnreadable == Person(<<"B", "o">>, <<(<<"5">>)>>, <<>>, <<>>, TRUE)
PeoplePool == {PersonJo, PersonAl, PersonNameless, PersonUnreadable}

\* a line of the script's result, the name of its contact, whether it has
\* four fields and a name
Line(text, name, wellFormed) ==
    [text |-> text, name |-> name, wellFormed |-> wellFormed]
LineJo ==
    Line(<<"J", "o">> \o Bars \o <<"5", ",", "6">> \o Bars
             \o <<"j", "@", "x">> \o Bars,
         <<"J", "o">>, TRUE)
LineAl ==
    Line(<<" ", "A", "l">> \o Bars \o Bars \o Bars \o <<"a">>,
         <<"A", "l">>, TRUE)
LineNameless == Line(Bars \o <<"5">> \o Bars \o Bars, Null, FALSE)
LineBlankName == Line(<<" ">> \o Bars \o <<"5">> \o Bars \o Bars, Null, FALSE)
LineTooShort ==
    Line(<<"B", "o">> \o Bars \o <<"5">>, <<"B", "o">>, FALSE)
LinePool == {LineJo, LineAl, LineNameless, LineBlankName, LineTooShort}

ListsOf(pool) == UNION {[1..k -> pool] : k \in 0..MaxPeople}

\* the string the script returns: every line followed by a newline
RECURSIVE ScriptResult(_)
ScriptResult(lines) ==
    IF lines = <<>> THEN <<>>
    ELSE Head(lines).text \o <<"\n">> \o ScriptResult(Tail(lines))

NotFetched == [state |-> "not run"]

InitFetch ==
    /\ mPeople \in ListsOf(PeoplePool)
    /\ mLines \in ListsOf(LinePool)
    /\ mOut = NotFetched

IdleFetch ==
    /\ mPeople = <<>>
    /\ mLines = <<>>
    /\ mOut = NotFetched

\* the JXA script of getAllContacts over the people of the application
JxaLoopStep ==
    /\ mOut = NotFetched
    /\ mOut' = [state |-> "parsed", source |-> "jxa",
                contacts |-> JxaPeopleLoop(mPeople, 1, <<>>)]
    /\ UNCHANGED <<mPeople, mLines, beyondFetch>>

\* getAllContactsAppleScript on the string the script returned
AppleScriptParseStep ==
    /\ mOut = NotFetched
    /\ mOut' = [state |-> "parsed", source |-> "applescript",
                contacts |-> ParseAppleScriptResult(ScriptResult(mLines))]
    /\ UNCHANGED <<mPeople, mLines, beyondFetch>>

NextFetch == JxaLoopStep \/ AppleScriptParseStep

IdleTools == IdleLoader /\ IdleHandler /\ IdleFetch

(***************************************************************************)
(* The engine, continued                                                   *)
(***************************************************************************)
\* the people of the Contacts application
JohnContact ==
    Contact(John, <<(<<"+", "1">> \o Body10)>>,
            <<(<<"j", "@", "x", ".", "c">>)>>)
AnnContact == Contact(<<"A", "n", "n">>, <<BodyShort>>, <<>>)
Directories == {<<>>, <<JohnContact, AnnContact>>}

\* the arguments the callers pass
SearchTerms == {<<"j", "o">>, <<>>}
EmailQueries == {<<"j", "@", "x", ".", "c">>, <<"x", ".", "c">>}
PhoneQueries == {Body10Dash, <<"4", "1", "1">>, Body10Ext}

AccessGuidance ==
    "Cannot access Contacts app. Please grant access in System Preferences > Security & Privacy > Privacy > Contacts."

NoValue == [kind |-> "none"]

\* what a call has done so far; invalidated: the call has a full fetch in
\* flight and invalidateCache was called since that fetch was issued
NewCall ==
    [hit |-> Null, probes |-> 0, fulls |-> 0, targeted |-> 0,
     scan |-> "none", found |-> FALSE, wroteBack |-> FALSE, servedAge |-> -1,
     invalidated |-> FALSE]

\* reading the entry without asking the cache whether it is still valid
cachedDataIgnoringTtl ==
    IF cache.present THEN Present(cache.snapshot) ELSE Absent

\* const cachedData = cache.get('allContacts')
cachedData == CacheGet(cache, now)

\* what the operation returns once getAllContacts has returned allContacts
LookupReturn(operation, argument, allContacts) ==
    CASE operation = "search" ->
            [kind |-> "results",
             value |-> FuzzyResults(Trim(argument), allContacts,
                                    DefaultMaxResults)]
      [] operation = "email" ->
            [kind |-> "contacts",
             value |-> EmailResults(Trim(argument), allContacts)]
      [] operation = "all" ->
            [kind |-> "contactsData", value |-> allContacts]

\* what the operation does with an error thrown before or by getAllContacts
LookupThrow(operation, messages) ==
    CASE operation = "search" -> [kind |-> "results", value |-> <<>>]
      [] operation = "email" ->
            [kind |-> "error",
             value |-> <<"Error finding contact by email">> \o messages]
      [] operation = "all" -> [kind |-> "error", value |-> messages]

ValidateArgument(operation, argument) ==
    CASE operation = "search" -> validateContactName(argument)
      [] operation = "email" -> validateEmail(argument)
      [] operation = "all" -> "ok"

InitEngine ==
    /\ cache = NoEntry
    /\ now = 0
    /\ directory \in Directories
    /\ pc = [p \in Callers |-> "idle"]
    /\ op = [p \in Callers |-> "none"]
    /\ arg = [p \in Callers |-> <<>>]
    /\ ret = [p \in Callers |-> NoValue]
    /\ hist = [p \in Callers |-> NewCall]
    /\ calls = 0

IdleEngine ==
    /\ cache = NoEntry
    /\ now = 0
    /\ directory = <<>>
    /\ pc = [p \in Callers |-> "idle"]
    /\ op = [p \in Callers |-> "none"]
    /\ arg = [p \in Callers |-> <<>>]
    /\ ret = [p \in Callers |-> NoValue]
    /\ hist = [p \in Callers |-> NewCall]
    /\ calls = 0

CanStart(p) == pc[p] \in {"idle", "done"} /\ calls < MaxCalls

\* fuzzySearchContacts / findContactByEmail / getAllContacts up to the first
\* suspension: validation, then getAllContacts lines 148-155
LookupCall(p, operation, argument) ==
    /\ CanStart(p)
    /\ calls' = calls + 1
    /\ op' = [op EXCEPT ![p] = operation]
    /\ arg' = [arg EXCEPT ![p] = argument]
    /\ IF ValidateArgument(operation, argument) # "ok"
       THEN /\ ret' = [ret EXCEPT ![p] =
                         LookupThrow(operation,
                             <<ValidateArgument(operation, argument)>>)]
            /\ pc' = [pc EXCEPT ![p] = "done"]
            /\ hist' = [hist EXCEPT ![p] = NewCall]
       ELSE IF cachedData.present
       THEN /\ ret' = [ret EXCEPT ![p] =
                         LookupReturn(operation, argument, cachedData.data)]
            /\ pc' = [pc EXCEPT ![p] = "done"]
            /\ hist' = [hist EXCEPT ![p] =
                          [NewCall EXCEPT !.servedAge = now - cache.createdAt]]
       ELSE /\ ret' = [ret EXCEPT ![p] = NoValue]
            /\ pc' = [pc EXCEPT ![p] = "access"]
            /\ hist' = [hist EXCEPT ![p] =
                          [NewCall EXCEPT !.probes = 1]]
    /\ UNCHANGED <<harnessVars, cache, now, directory>>

\* a caller calls fuzzySearchContacts, findContactByEmail or getAllContacts
StartLookup(p) ==
    \/ \E term \in SearchTerms : LookupCall(p, "search", term)
    \/ \E email \in EmailQueries : LookupCall(p, "email", email)
    \/ LookupCall(p, "all", <<>>)

\* checkContactsAccess succeeds: the JXA fetch is issued (lines 155-163)
AccessGranted(p) ==
    /\ pc[p] = "access"
    /\ pc' = [pc EXCEPT ![p] = "jxa"]
    /\ hist' = [hist EXCEPT ![p].fulls = @ + 1]
    /\ UNCHANGED <<harnessVars, cache, now, directory, op, arg, ret, calls>>

\* checkContactsAccess throws: getAllContacts rethrows (lines 36-39, 237-240)
AccessDenied(p) ==
    /\ pc[p] = "access"
    /\ pc' = [pc EXCEPT ![p] = "done"]
    /\ ret' = [ret EXCEPT ![p] =
                 LookupThrow(op[p],
                     <<"Error accessing contacts", AccessGuidance>>)]
    /\ UNCHANGED <<harnessVars, cache, now, directory, op, arg, hist, calls>>

\* lines 231-236 : cache a non-empty result, return it
CacheAndReturn(p, contactsData) ==
    /\ cache' = IF Len(contactsData) > 0
                THEN CacheSet(contactsData, now)
                ELSE cache
    /\ ret' = [ret EXCEPT ![p] = LookupReturn(op[p], arg[p], contactsData)]
    /\ pc' = [pc EXCEPT ![p] = "done"]
    /\ hist' = [hist EXCEPT ![p].invalidated = FALSE]

\* the JXA fetch returns a non-empty map (lines 217-221, 231-236)
JxaSucceeds(p) ==
    /\ pc[p] = "jxa"
    /\ Len(ContactsMap(directory, 1, <<>>)) > 0
    /\ CacheAndReturn(p, ContactsMap(directory, 1, <<>>))
    /\ UNCHANGED <<harnessVars, now, directory, op, arg, calls>>

\* the JXA fetch returns an empty map or throws: the AppleScript fetch is
\* issued (lines 221-228)
JxaFallsBack(p) ==
    /\ pc[p] = "jxa"
    /\ pc' = [pc EXCEPT ![p] = "applescript"]
    /\ hist' = [hist EXCEPT ![p].fulls = @ + 1, ![p].invalidated = FALSE]
    /\ UNCHANGED <<harnessVars, cache, now, directory, op, arg, ret, calls>>

\* the AppleScript fetch returns its parsed contacts (lines 105-136, 231-236)
AppleScriptSucceeds(p) ==
    /\ pc[p] = "applescript"
    /\ CacheAndReturn(p, ContactsMap(directory, 1, <<>>))
    /\ UNCHANGED <<harnessVars, now, directory, op, arg, calls>>

\* the AppleScript fetch throws (lines 137-140, 237-240)
AppleScriptFails(p) ==
    /\ pc[p] = "applescript"
    /\ pc' = [pc EXCEPT ![p] = "done"]
    /\ ret' = [ret EXCEPT ![p] =
                 LookupThrow(op[p],
                     <<"Error accessing contacts", "AppleScript failed">>)]
    /\ hist' = [hist EXCEPT ![p].invalidated = FALSE]
    /\ UNCHANGED <<harnessVars, cache, now, directory, op, arg, calls>>

\* findContactByPhoneOptimized up to its first suspension (lines 467-470):
\* validation, then the access probe is issued
StartPhone(p) ==
    /\ CanStart(p)
    /\ \E phoneNumber \in PhoneQueries :
        /\ calls' = calls + 1
        /\ op' = [op EXCEPT ![p] = "phone"]
        /\ arg' = [arg EXCEPT ![p] = phoneNumber]
        /\ IF validatePhoneNumber(phoneNumber) # "ok"
           THEN /\ ret' = [ret EXCEPT ![p] = [kind |-> "name", value |-> Null]]
                /\ pc' = [pc EXCEPT ![p] = "done"]
                /\ hist' = [hist EXCEPT ![p] = NewCall]
           ELSE /\ ret' = [ret EXCEPT ![p] = NoValue]
                /\ pc' = [pc EXCEPT ![p] = "phoneAccess"]
                /\ hist' = [hist EXCEPT ![p] =
                              [NewCall EXCEPT
                                 !.probes = 1,
                                 !.hit = findContactByPhoneCachedSearch(
                                            normalizePhoneNumber(
                                                Trim(phoneNumber)),
                                            cachedData)]]
    /\ UNCHANGED <<harnessVars, cache, now, directory>>

\* the probe throws: the outer catch returns null (lines 570-573)
PhoneAccessDenied(p) ==
    /\ pc[p] = "phoneAccess"
    /\ pc' = [pc EXCEPT ![p] = "done"]
    /\ ret' = [ret EXCEPT ![p] = [kind |-> "name", value |-> Null]]
    /\ UNCHANGED <<harnessVars, cache, now, directory, op, arg, hist, calls>>

\* the probe succeeds: the cache scan (lines 475-484); on a miss the targeted
\* JXA query is issued (line 490)
PhoneAccessDoneAlwaysQueries(p) ==
    /\ pc[p] = "phoneAccess"
    /\ LET searchNumbers == normalizePhoneNumber(Trim(arg[p]))
           cacheResult ==
               findContactByPhoneCachedSearch(searchNumbers, cachedData)
       IN  /\ pc' = [pc EXCEPT ![p] = "phoneJxa"]
           /\ ret' = ret
           /\ hist' = [hist EXCEPT
                         ![p].scan = IF cacheResult # Null THEN "hit"
                                     ELSE "miss",
                         ![p].targeted = @ + 1]
    /\ UNCHANGED <<harnessVars, cache, now, directory, op, arg, calls>>

PhoneAccessDone(p) ==
    /\ pc[p] = "phoneAccess"
    /\ LET searchNumbers == normalizePhoneNumber(Trim(arg[p]))
           cacheResult ==
               findContactByPhoneCachedSearch(searchNumbers, cachedData)
       IN  IF cacheResult # Null
           THEN /\ pc' = [pc EXCEPT ![p] = "done"]
                /\ ret' = [ret EXCEPT ![p] =
                             [kind |-> "name", value |-> cacheResult]]
                /\ hist' = [hist EXCEPT
                              ![p].scan = "hit",
                              ![p].servedAge = now - cache.createdAt]
           ELSE /\ pc' = [pc EXCEPT ![p] = "phoneJxa"]
                /\ ret' = ret
                /\ hist' = [hist EXCEPT
                              ![p].scan = "miss",
                              ![p].targeted = @ + 1]
    /\ UNCHANGED <<harnessVars, cache, now, directory, op, arg, calls>>

\* the person the direct JXA search returns (lines 496-546) : the first of
\* the people with a matching phone, or null
RECURSIVE DirectSearch(_, _, _)
DirectSearch(searchFormats, people, i) ==
    IF i > Len(people) THEN Contact(Null, <<>>, <<>>)
    ELSE IF PhoneMatches(searchFormats, people[i].phones) THEN people[i]
    ELSE DirectSearch(searchFormats, people, i + 1)

\* cacheContactSearchResult : the entry after the write-back
cacheContactSearchResult(contactInfo) ==
    LET existingData == IF cachedData.present THEN cachedData.data ELSE <<>>
    IN  CacheSet(AssignContact(existingData, contactInfo), now)

\* the targeted query returns a contact: it is written back and its name is
\* returned (lines 549-562)
PhoneQueryFinds(p) ==
    /\ pc[p] = "phoneJxa"
    /\ LET foundContact ==
               DirectSearch(normalizePhoneNumber(Trim(arg[p])), directory, 1)
       IN  /\ foundContact.name # Null
           /\ cache' = cacheContactSearchResult(foundContact)
           /\ ret' = [ret EXCEPT ![p] =
                        [kind |-> "name", value |-> foundContact.name]]
           /\ hist' = [hist EXCEPT
                         ![p].found = TRUE,
                         ![p].wroteBack =
                             /\ cache'.present
                             /\ IndexOfName(cache'.snapshot,
                                            foundContact.name, 1) > 0]
    /\ pc' = [pc EXCEPT ![p] = "done"]
    /\ UNCHANGED <<harnessVars, now, directory, op, arg, calls>>

\* the targeted query returns null or throws: null is returned
\* (lines 563-568)
PhoneQueryFindsNothing(p) ==
    /\ pc[p] = "phoneJxa"
    /\ pc' = [pc EXCEPT ![p] = "done"]
    /\ ret' = [ret EXCEPT ![p] = [kind |-> "name", value |-> Null]]
    /\ UNCHANGED <<harnessVars, cache, now, directory, op, arg, hist, calls>>

\* invalidateCache
InvalidateCache ==
    /\ cache' = CacheInvalidate
    /\ hist' = [p \in Callers |->
                  IF observing /\ pc[p] \in {"jxa", "applescript"}
                  THEN [hist[p] EXCEPT !.invalidated = TRUE]
                  ELSE hist[p]]
    /\ UNCHANGED <<harnessVars, now, directory, pc, op, arg, ret, calls>>

\* the clock advances.  The cache compares only now - createdAt, so the
\* instant matters only through the age of an entry: the clock is advanced
\* while an entry is stored, and an entry written later starts at age 0
\* whatever the instant.
Tick ==
    /\ now < MaxTime
    /\ cache.present
    /\ now' = now + 1
    /\ UNCHANGED <<harnessVars, cache, directory, pc, op, arg, ret, hist, calls>>

Next ==
    \/ \E p \in Callers : StartLookup(p)
    \/ \E p \in Callers : AccessGranted(p)
    \/ \E p \in Callers : AccessDenied(p)
    \/ \E p \in Callers : JxaSucceeds(p)
    \/ \E p \in Callers : JxaFallsBack(p)
    \/ \E p \in Callers : AppleScriptSucceeds(p)
    \/ \E p \in Callers : AppleScriptFails(p)
    \/ \E p \in Callers : StartPhone(p)
    \/ \E p \in Callers : PhoneAccessDenied(p)
    \/ \E p \in Callers : PhoneAccessDone(p)
    \/ \E p \in Callers : PhoneQueryFinds(p)
    \/ \E p \in Callers : PhoneQueryFindsNothing(p)
    \/ InvalidateCache
    \/ Tick

Init ==
    /\ InitEngine /\ IdleScore /\ IdlePhone /\ IdleSearch /\ IdleTools
    /\ observing = FALSE

Spec == Init /\ [][Next]_vars

(***************************************************************************)
(* Properties of the engine                                                *)
(***************************************************************************)
FullFetchesInFlight ==
    Cardinality({p \in Callers : pc[p] \in {"jxa", "applescript"}})

\* C1: lookups that start while the cache is cold or expired and interleave
\* at the external calls share one full-directory fetch: at no time are two
\* full-directory fetches in flight.
SingleFlightPopulation == FullFetchesInFlight <= 1

\* C2: writing back the record found by the targeted phone query when the
\* cache has no entry is a no-op: the cache has no entry afterwards.
UpsertIntoAbsentIsNoOp ==
    [][(~cache.present /\ \E p \in Callers : PhoneQueryFinds(p))
          => ~cache'.present]_vars

PhoneWarmHitIsCacheOnly ==
    \A p \in Callers :
        (op[p] = "phone" /\ hist[p].hit # Null) =>
            /\ hist[p].probes = 0
            /\ hist[p].targeted = 0
            /\ hist[p].fulls = 0
            /\ pc[p] = "done"
            /\ ret[p] = [kind |-> "name", value |-> hist[p].hit]

\* C5: in every phone lookup the targeted query is issued only after the
\* cache scan found nothing and at most once, the write-back happens only
\* after the targeted query returned a record and before its name is
\* returned, and no full-directory fetch is issued.
PhoneFollowsStateMachine ==
    \A p \in Callers :
        op[p] = "phone" =>
            /\ hist[p].targeted <= 1
            /\ hist[p].targeted = 1 => hist[p].scan = "miss"
            /\ (pc[p] = "done" /\ hist[p].scan = "hit") =>
                  (hist[p].targeted = 0 /\ ret[p].value # Null)
            /\ hist[p].wroteBack => (hist[p].found /\ hist[p].targeted = 1)
            /\ (pc[p] = "done" /\ hist[p].found) =>
                  (hist[p].wroteBack /\ ret[p].value # Null)
            /\ hist[p].fulls = 0

\* a phone lookup that missed the cache, found the contact by the targeted
\* query, wrote it back and returned its name
PhoneStateMachineWitness ==
    \E p \in Callers :
        /\ op[p] = "phone"
        /\ pc[p] = "done"
        /\ hist[p].scan = "miss"
        /\ hist[p].found
        /\ hist[p].wroteBack
        /\ ret[p].value # Null

\* the call of p ended because its access probe failed
AccessWasDenied(p) ==
    /\ pc[p] = "done"
    /\ hist[p].probes = 1
    /\ IF op[p] = "phone" THEN hist[p].scan = "none" ELSE hist[p].fulls = 0

\* C18: a name/text search, email lookup or phone lookup whose access probe
\* fails, and whose result is not in the cache, ends with an error that
\* carries the guidance string (never with an empty list or none), and the
\* probe is not repeated.
AccessDeniedIsPropagated ==
    \A p \in Callers :
        (/\ op[p] \in {"search", "email", "phone"}
         /\ AccessWasDenied(p)
         /\ hist[p].hit = Null) =>
            /\ ret[p].kind = "error"
            /\ AccessGuidance \in Range(ret[p].value)
            /\ hist[p].probes = 1

\* the constraint the argument violates, "ok" if none
ViolatedConstraint(operation, argument) ==
    IF operation = "phone" THEN validatePhoneNumber(argument)
    ELSE ValidateArgument(operation, argument)

\* the argument is an empty query or a phone string with a disallowed
\* character
IsInvalidInput(operation, argument) ==
    \/ Trim(argument) = <<>>
    \/ operation = "phone"
         /\ validatePhoneNumber(argument) = "invalid characters"

\* C19: a lookup called with an empty query or with a phone string holding a
\* disallowed character is rejected in the step that starts it: nothing is
\* read from the cache, no external call is made, the cache is unchanged and
\* the caller gets an error naming the violated constraint.
InvalidInputIsRejectedUpFront ==
    [][\A p \in Callers :
          ((StartLookup(p) \/ StartPhone(p))
              /\ IsInvalidInput(op'[p], arg'[p])) =>
             /\ cache' = cache
             /\ hist'[p] = NewCall
             /\ pc'[p] = "done"
             /\ ret'[p].kind = "error"
             /\ ViolatedConstraint(op'[p], arg'[p]) \in Range(ret'[p].value)]_vars

\* C20: when the full fetch of a caller fails (the access probe, or both
\* bridges), no entry is left under the key, so that the next lookup fetches
\* again, and the caller of getAllContacts gets the failure.
FailedFetchLeavesNoEntry ==
    [][\A p \in Callers :
          (AccessDenied(p) \/ AppleScriptFails(p)) =>
             /\ ~CacheGet(cache', now').present
             /\ op[p] \in {"all", "email"} => ret'[p].kind = "error"]_vars

\* a step that sets the entry: a full fetch that caches its result, or the
\* write-back of a phone lookup
SomeCallerSets ==
    \E p \in Callers :
        JxaSucceeds(p) \/ AppleScriptSucceeds(p) \/ PhoneQueryFinds(p)

\* C22: after invalidateCache the cache returns absent, it stays absent
\* until a step that sets the entry, and a name or email lookup that starts
\* while it is absent is not served a snapshot: it goes to the Contacts
\* application for a new full fetch.
InvalidationForcesRefetch ==
    [][/\ InvalidateCache => ~CacheGet(cache', now').present
       /\ (~cache.present /\ cache'.present) => SomeCallerSets
       /\ \A p \in Callers :
             (/\ ~cache.present
              /\ CanStart(p)
              /\ calls' # calls
              /\ StartLookup(p)
              /\ ValidateArgument(op'[p], arg'[p]) = "ok") =>
                 /\ pc'[p] = "access"
                 /\ ret'[p] = NoValue
                 /\ hist'[p].servedAge = -1]_vars

\* one caller's full fetch cached the directory, the entry is gone again,
\* and another caller's lookup is on its way to a new full fetch
InvalidationWitness ==
    \E p, q \in Callers :
        /\ p # q
        /\ pc[q] = "done"
        /\ op[q] \in {"search", "email", "all"}
        /\ hist[q].fulls >= 1
        /\ ret[q].kind # "error"
        /\ directory # <<>>
        /\ ~cache.present
        /\ pc[p] \in {"access", "jxa"}
        /\ op[p] \in {"search", "email"}

\* C23: every successful full fetch stores the fetched snapshot, whatever
\* it contains, so that the following lookups are served from the cache.
SuccessfulFetchIsCached ==
    [][\A p \in Callers :
          (JxaSucceeds(p) \/ AppleScriptSucceeds(p)) =>
             /\ cache' = CacheSet(ContactsMap(directory, 1, <<>>), now)
             /\ CacheGet(cache', now').present]_vars

\* C27: a snapshot held in the cache contains every contact that a
\* full-directory fetch returns.
CachedSnapshotIsComplete ==
    cache.present =>
        \A i \in 1..Len(ContactsMap(directory, 1, <<>>)) :
            IndexOfName(cache.snapshot,
                        ContactsMap(directory, 1, <<>>)[i].name, 1) > 0

\* C28: a full fetch during which invalidateCache was called does not put
\* its snapshot into the cache when it settles, so that a lookup started
\* after the invalidation is not served data read before it.
InvalidationNotUndone ==
    [][\A p \in Callers :
          ((JxaSucceeds(p) \/ AppleScriptSucceeds(p))
              /\ hist[p].invalidated) =>
             ~CacheGet(cache', now').present]_vars

\* C29: the write-back of a phone lookup into an existing entry leaves the
\* entry's createdAt unchanged.
WriteBackKeepsCreatedAt ==
    [][\A p \in Callers :
          (PhoneQueryFinds(p) /\ cachedData.present) =>
             cache'.createdAt = cache.createdAt]_vars

\* the engine with the invalidations that hit a fetch in flight recorded
InitObserved ==
    /\ InitEngine /\ IdleScore /\ IdlePhone /\ IdleSearch /\ IdleTools
    /\ observing = TRUE
SpecObserved == InitObserved /\ [][Next]_vars

InitScoreHarness ==
    /\ InitScore /\ IdlePhone /\ IdleSearch /\ IdleEngine /\ IdleTools
    /\ observing = FALSE
NextScoreHarness == ScoreStep
SpecScore == InitScoreHarness /\ [][NextScoreHarness]_vars

InitPhoneHarness ==
    /\ InitPhone /\ IdleScore /\ IdleSearch /\ IdleEngine /\ IdleTools
    /\ observing = FALSE
NextPhoneHarness == PhoneScanStep \/ PhoneRejectStep
SpecPhone == InitPhoneHarness /\ [][NextPhoneHarness]_vars

InitLoaderHarness ==
    /\ InitLoader /\ IdleHandler /\ IdleFetch
    /\ IdleScore /\ IdlePhone /\ IdleSearch /\ IdleEngine
    /\ observing = FALSE
SpecLoader == InitLoaderHarness /\ [][NextLoader]_vars

InitHandlerHarness ==
    /\ InitHandler /\ IdleLoader /\ IdleFetch
    /\ IdleScore /\ IdlePhone /\ IdleSearch /\ IdleEngine
    /\ observing = FALSE
SpecHandler == InitHandlerHarness /\ [][NextHandler]_vars

InitFetchHarness ==
    /\ InitFetch /\ IdleLoader /\ IdleHandler
    /\ IdleScore /\ IdlePhone /\ IdleSearch /\ IdleEngine
    /\ observing = FALSE
SpecFetch == InitFetchHarness /\ [][NextFetch]_vars

InitSearchHarness ==
    /\ InitSearch /\ IdleScore /\ IdlePhone /\ IdleEngine /\ IdleTools
    /\ observing = FALSE
NextSearchHarness == FuzzySearchStep \/ EmailSearchStep
SpecSearch == InitSearchHarness /\ [][NextSearchHarness]_vars

(***************************************************************************)
(* Properties of the phone normaliser and the cache scan                   *)
(***************************************************************************)
NormalizedSet(phone) == Range(normalizePhoneNumber(phone))
SetsIntersect(q, p) == NormalizedSet(q) \cap NormalizedSet(p) # {}

\* C6: the cache scan treats a stored phone as matching a query exactly when
\* their normalized sets have a common element, and the relation is
\* symmetric: the query matches the stored phone iff the stored phone, used
\* as the query, matches it.
PhoneEquivalenceIsSymmetricIntersection ==
    pOut.state = "scanned" =>
        /\ pOut.matches <=> SetsIntersect(Trim(pQuery), pStored)
        /\ pOut.matches <=> pOut.reverse

\* the five rules of the normaliser as the claim states them
RECURSIVE DropPlus(_)
DropPlus(s) ==
    IF s = <<>> THEN <<>>
    ELSE IF Head(s) = "+" THEN DropPlus(Tail(s))
    ELSE <<Head(s)>> \o DropPlus(Tail(s))

LeadingPlusForm(raw) ==
    LET kept == StripPhone(raw)
    IN  IF kept = <<>> THEN <<>> ELSE <<Head(kept)>> \o DropPlus(Tail(kept))

FiveRuleForms(raw) ==
    LET c == LeadingPlusForm(raw)
        noPlus == ~StartsWith(c, <<"+">>)
    IN  {c}
        \cup (IF StartsWith(c, <<"+", "1">>) /\ Len(c) = 12
              THEN {SubSeq(c, 3, Len(c))} ELSE {})
        \cup (IF noPlus /\ Len(c) = 10 THEN {<<"+", "1">> \o c} ELSE {})
        \cup (IF noPlus /\ Len(c) > 0 THEN {<<"+">> \o c} ELSE {})

\* C7: normalize(raw) is exactly the set given by the five rules: the form
\* with only digits and a leading '+', the form without '+1' only for a
\* 12-character '+1' number, '+1'+c only for 10 digits without '+', '+'+c
\* only for a non-empty c without '+'.
NormalizeFollowsFiveRules ==
    pOut.state = "scanned" =>
        Range(pOut.searchNumbers) = FiveRuleForms(Trim(pQuery))

\* x is a bare 10-digit number, y the same number with the +1 prefix
IsBareAndPlusOne(x, y) ==
    LET cx == StripPhone(x)
        cy == StripPhone(y)
    IN  /\ Len(cx) = 10
        /\ \A i \in 1..10 : cx[i] \in Digits
        /\ cy = <<"+", "1">> \o cx

OtherUsForm(q, p) == IsBareAndPlusOne(q, p) \/ IsBareAndPlusOne(p, q)

\* the names of the scanned contacts whose stored phone is equivalent to q
EquivalentContacts(q, snapshot) ==
    {snapshot[i].name : i \in
        {j \in 1..Len(snapshot) :
            \E k \in 1..Len(snapshot[j].phones) :
                SetsIntersect(q, snapshot[j].phones[k])}}

\* C8: for a 10-digit number in any allowed punctuation, the +1 form and the
\* bare form have intersecting normalized sets, and the phone lookup called
\* with one form returns a contact whose stored phone is the other form.
UsFormsAreReconciled ==
    (pOut.state = "scanned" /\ OtherUsForm(Trim(pQuery), pStored)) =>
        /\ SetsIntersect(Trim(pQuery), pStored)
        /\ pOut.found \in
              EquivalentContacts(Trim(pQuery), HarnessSnapshot(pFirst, pStored))

(***************************************************************************)
(* Properties of the scorer                                                *)
(***************************************************************************)
Scored == sScore # NotScored
EqualIgnoringCase(q, t) == ToLowerCase(q) = ToLowerCase(t)
PrefixIgnoringCase(q, t) == StartsWith(ToLowerCase(t), ToLowerCase(q))

\* C9: score(q, t) is 1.0 whenever q and t are equal after lowercasing, in
\* particular score(s, s) = 1.0.
ExactMatchScoresOne ==
    (Scored /\ EqualIgnoringCase(sQuery, sTarget)) =>
        RatEq(sScore, Ratio(1, 1))

\* a scored pair equal only up to letter case
ExactMatchWitness ==
    /\ Scored
    /\ EqualIgnoringCase(sQuery, sTarget)
    /\ sQuery # sTarget
    /\ RatEq(sScore, Ratio(1, 1))

\* C10 as stated: whenever the target starts with the query ignoring case and
\* the two strings differ (be it only in letter case), the score is 0.9.
PrefixScoresPointNineOriginal ==
    (Scored /\ PrefixIgnoringCase(sQuery, sTarget) /\ sQuery # sTarget) =>
        RatEq(sScore, Ratio(9, 10))

\* C10 amended: whenever the target starts with the query ignoring case and
\* the two strings are not equal after lowercasing, the score is 0.9.
PrefixScoresPointNine ==
    (Scored /\ PrefixIgnoringCase(sQuery, sTarget)
            /\ ~EqualIgnoringCase(sQuery, sTarget)) =>
        RatEq(sScore, Ratio(9, 10))

\* a scored proper prefix whose letter case differs from the target's
PrefixWitness ==
    /\ Scored
    /\ sQuery # <<>>
    /\ PrefixIgnoringCase(sQuery, sTarget)
    /\ ~EqualIgnoringCase(sQuery, sTarget)
    /\ ~StartsWith(sTarget, sQuery)
    /\ RatEq(sScore, Ratio(9, 10))

\* some whitespace-delimited word of the target starts with the query
SomeWordStartsWith(q, t) ==
    LET words == SplitWhitespace(ToLowerCase(t))
    IN  \E i \in 1..Len(words) : StartsWith(words[i], ToLowerCase(q))

ContainsIgnoringCase(q, t) == Includes(ToLowerCase(t), ToLowerCase(q))

\* C11: when the target does not start with the query but one of its words
\* does, the score is 0.8 (the word-start rule comes before the substring
\* rule); 0.7 is the score only when the query is a substring of the target
\* and no word of the target starts with it.
WordStartDominatesContainment ==
    Scored =>
        /\ (~PrefixIgnoringCase(sQuery, sTarget)
              /\ SomeWordStartsWith(sQuery, sTarget))
               => RatEq(sScore, Ratio(8, 10))
        /\ RatEq(sScore, Ratio(7, 10))
               => (ContainsIgnoringCase(sQuery, sTarget)
                     /\ ~SomeWordStartsWith(sQuery, sTarget))

\* every character of q occurs in t, in order
RECURSIVE IsSubsequence(_, _)
IsSubsequence(q, t) ==
    IF q = <<>> THEN TRUE
    ELSE IF t = <<>> THEN FALSE
    ELSE IF Head(q) = Head(t) THEN IsSubsequence(Tail(q), Tail(t))
    ELSE IsSubsequence(q, Tail(t))

\* C12: when no higher rule applies (the query is neither equal to, a prefix
\* of, nor a substring of the target) the score is
\* 0.3 * (query length / target length) if every character of the query
\* occurs in the target in order, and 0 otherwise.
SubsequenceScoresPointThreeScaled ==
    (Scored /\ ~EqualIgnoringCase(sQuery, sTarget)
            /\ ~ContainsIgnoringCase(sQuery, sTarget)) =>
        IF IsSubsequence(ToLowerCase(sQuery), ToLowerCase(sTarget))
        THEN RatEq(sScore, Ratio(3 * Len(sQuery), 10 * Len(sTarget)))
        ELSE RatEq(sScore, Ratio(0, 1))

(***************************************************************************)
(* Properties of the aggregate search and the email lookup                 *)
(***************************************************************************)
Searched == fOut.state = "searched"
SnapshotIndex(name) == IndexOfName(fSnapshot, name, 1)
\* the weight of a field type, in tenths
Weight(matchType) ==
    CASE matchType = "name" -> 10
      [] matchType = "email" -> 9
      [] matchType = "phone" -> 8

\* the pushed candidates of the contact called name
CandidatesOf(name) ==
    {k \in 1..Len(fOut.results) : fOut.results[k].contact.name = name}

\* C13: the result list has at most one entry per contact name, and that
\* entry is the highest-scoring of the contact's candidates: its name
\* candidate, its email candidates (score x 0.9), its phone candidates
\* (score x 0.8).
OneEntryPerContactAtBestScore ==
    Searched =>
        /\ \A k \in 1..Len(fOut.results) :
              LET m == fOut.results[k]
              IN  RatEq(m.score,
                        Scale(calculateFuzzyScore(Trim(fTerm), m.matchValue),
                              Weight(m.matchType), 10))
        /\ \A i \in 1..Len(fOut.sortedResults) :
              LET e == fOut.sortedResults[i]
              IN  /\ \A j \in 1..Len(fOut.sortedResults) :
                        j # i => fOut.sortedResults[j].contact.name
                                     # e.contact.name
                  /\ \E k \in CandidatesOf(e.contact.name) :
                        fOut.results[k] = e
                  /\ \A k \in CandidatesOf(e.contact.name) :
                        RatLe(fOut.results[k].score, e.score)

\* a contact listed by its email although its name is a lower candidate
DedupWitness ==
    /\ Searched
    /\ \E i \in 1..Len(fOut.sortedResults) :
          LET e == fOut.sortedResults[i]
          IN  /\ e.matchType = "email"
              /\ \E k \in CandidatesOf(e.contact.name) :
                    /\ fOut.results[k].matchType = "name"
                    /\ RatLt(fOut.results[k].score, e.score)

\* C14: the returned list is in non-increasing score order, entries of equal
\* score keep the order of the snapshot, the list has at most maxResults
\* entries, and no contact left out ranks before a listed one.
RankedAndTruncated ==
    Searched =>
        LET out == fOut.sortedResults
            Before(e, m) ==
                \/ RatLt(m.score, e.score)
                \/ /\ RatEq(m.score, e.score)
                   /\ SnapshotIndex(e.contact.name)
                          < SnapshotIndex(m.contact.name)
        IN  /\ Len(out) <= fMax
            /\ \A i, j \in 1..Len(out) :
                  i < j =>
                     /\ RatLe(out[j].score, out[i].score)
                     /\ RatEq(out[j].score, out[i].score) =>
                           SnapshotIndex(out[i].contact.name)
                               < SnapshotIndex(out[j].contact.name)
            /\ \A k \in 1..Len(fOut.results) :
                  LET m == fOut.results[k]
                  IN  (\A i \in 1..Len(out) :
                           out[i].contact.name # m.contact.name)
                      => /\ Len(out) = fMax
                         /\ \A i \in 1..Len(out) : Before(out[i], m)

\* a full list that leaves out a contact scoring the same as its last entry
TruncationWitness ==
    /\ Searched
    /\ fMax >= 1
    /\ Len(fOut.sortedResults) = fMax
    /\ \E k \in 1..Len(fOut.results) :
          /\ \A i \in 1..Len(fOut.sortedResults) :
                fOut.sortedResults[i].contact.name
                    # fOut.results[k].contact.name
          /\ RatEq(fOut.results[k].score,
                   fOut.sortedResults[fMax].score)

\* a candidate of the field type was pushed for this value of the contact
Pushed(contact, matchType, matchValue) ==
    \E k \in 1..Len(fOut.results) :
        /\ fOut.results[k].contact = contact
        /\ fOut.results[k].matchType = matchType
        /\ fOut.results[k].matchValue = matchValue

\* C15: a candidate is discarded exactly when its score is below the minimum
\* of its field type, 0.3 for names and emails and 0.5 for phones (a score
\* equal to the minimum is kept), and every returned score is in [0,1].
ThresholdKeepsEqualScores ==
    (Searched /\ Trim(fTerm) # <<>>) =>
        /\ \A n \in 1..Len(fSnapshot) :
              LET c == fSnapshot[n]
                  score(value) == calculateFuzzyScore(Trim(fTerm), value)
              IN  /\ Pushed(c, "name", c.name)
                        <=> RatLe(Ratio(3, 10), score(c.name))
                  /\ \A k \in 1..Len(c.emails) :
                        Pushed(c, "email", c.emails[k])
                            <=> RatLe(Ratio(3, 10), score(c.emails[k]))
                  /\ \A k \in 1..Len(c.phones) :
                        Pushed(c, "phone", c.phones[k])
                            <=> RatLe(Ratio(5, 10), score(c.phones[k]))
        /\ \A i \in 1..Len(fOut.sortedResults) :
              /\ RatLe(Ratio(0, 1), fOut.sortedResults[i].score)
              /\ RatLe(fOut.sortedResults[i].score, Ratio(1, 1))

\* C16: for every non-empty query the email lookup returns exactly the
\* contacts with an email that contains the query ignoring case, each once,
\* in snapshot order.
EmailLookupIsSubstringContainment ==
    (fOut.state = "email" /\ fTerm # <<>>) =>
        /\ fOut.kind = "contacts"
        /\ fOut.value =
              SelectSeq(fSnapshot,
                  LAMBDA c : \E k \in 1..Len(c.emails) :
                                 ContainsIgnoringCase(fTerm, c.emails[k]))

\* where the contact called name is listed
ListedAt(name) ==
    {i \in 1..Len(fOut.sortedResults) :
        fOut.sortedResults[i].contact.name = name}

MatchedContacts ==
    Cardinality({fOut.results[k].contact.name : k \in 1..Len(fOut.results)})

Parsed == mOut # NotFetched

WellFormedPerson(person) == ~person.unreadable /\ person.name # Null

NamesOf(contacts) == {contacts[i].name : i \in 1..Len(contacts)}

\* the names of the well-formed records of the list that was parsed
WellFormedNames ==
    IF mOut.source = "jxa"
    THEN {person.name : person \in {q \in Range(mPeople) : WellFormedPerson(q)}}
    ELSE {line.name : line \in {l \in Range(mLines) : l.wellFormed}}

\* C21: a list with malformed records (no name, too few fields, an error
\* while reading the record) is still parsed, and the resulting snapshot
\* holds exactly the well-formed records of the list, each with a non-empty
\* name and with its phones, emails and addresses as lists.
MalformedRecordsAreSkipped ==
    Parsed =>
        /\ mOut.state = "parsed"
        /\ \A i \in 1..Len(mOut.contacts) :
              /\ mOut.contacts[i].name # Null
              /\ {"phones", "emails", "addresses"}
                    \subseteq DOMAIN mOut.contacts[i]
              /\ \A field \in {"phones", "emails", "addresses"} :
                    DOMAIN mOut.contacts[i][field]
                        = 1..Len(mOut.contacts[i][field])
        /\ NamesOf(mOut.contacts) = WellFormedNames

\* the JXA loop went over a well-formed person, a person without name and
\* an unreadable person, or the parser over a well-formed line and a line
\* with too few fields
MalformedWitness ==
    /\ Parsed
    /\ Len(mOut.contacts) = 1
    /\ \/ /\ mOut.source = "jxa"
          /\ \E i, j \in 1..Len(mPeople) :
                /\ WellFormedPerson(mPeople[i])
                /\ ~WellFormedPerson(mPeople[j])
       \/ /\ mOut.source = "applescript"
          /\ \E i, j \in 1..Len(mLines) :
                /\ mLines[i].wellFormed
                /\ mLines[j] = LineTooShort

(***************************************************************************)
(* Properties of the module loader                                         *)
(***************************************************************************)
\* no import failed and clearCache was not called
PlainLoading ==
    /\ clears = 0
    /\ \A i \in 1..Len(promises) : promises[i].state # "rejected"

LoadedOnceWithoutClear ==
    PlainLoading =>
        /\ Len(promises) <= 1
        /\ (\E p \in Callers : lpc[p] # "idle") => Len(promises) = 1
        /\ \A p \in Callers : lpc[p] = "done" => lret[p] = Module(1)

ClearForcesImport ==
    \A p \in Callers :
        (lfresh /\ LoadModule(p)) => Len(promises') = Len(promises) + 1

\* C24: while no import fails and clearCache is not called, the loadModule
\* calls for a name start exactly one import and all return its module, and
\* the first loadModule call after a clearCache starts an import.
ModuleLoadedOnce ==
    []LoadedOnceWithoutClear /\ [][ClearForcesImport]_vars

(***************************************************************************)
(* Properties of the handlers                                              *)
(***************************************************************************)
Handled == hOut # NotHandled

\* the arguments are missing or invalid, loadModule fails or handleOperation
\* fails
HandleFailureCase ==
    \/ hArgs = Undefined
    \/ hLoad # "module"
    \/ hHandler = "TestHandler" /\ (~hValid \/ hOp # "result")
    \/ hHandler = "ContactsHandler" /\ ~validate(hArgs[1]).ok

LegacyArgs ==
    /\ hHandler = "ContactsHandler"
    /\ hArgs # Undefined
    /\ TruthyString(hArgs[1].name)
    /\ hArgs[1].operation = Undefined

\* C26: arguments with a non-empty string name and no operation pass
\* validateArgs, and handle then calls searchContacts(name) and returns a
\* response that is not an error.
LegacyNameIsSearched ==
    (Handled /\ LegacyArgs) =>
        /\ hOut.validated = "true"
        /\ hLoad = "module" =>
              /\ hOut.made = <<Call("searchContacts", <<hArgs[1].name[1]>>)>>
              /\ ~hOut.response.isError

\* C30: a search with maxResults >= 1 lists at most maxResults contacts,
\* whether includeScore is true, false or omitted.
SearchHonoursLimit ==
    (/\ Handled
     /\ hHandler = "ContactsHandler"
     /\ hArgs # Undefined
     /\ hArgs[1].operation = Defined("search")
     /\ hArgs[1].maxResults # Undefined
     /\ hArgs[1].maxResults[1] >= 1
     /\ hOut.settled = "resolved"
     /\ ~hOut.response.isError) =>
        Len(hOut.response.contacts) <= hArgs[1].maxResults[1]

====
